---- MODULE Spec2Model ----
(***************************************************************************)
(* Model of main.py of TONCHECK_Bot_Render: the alert store kept in        *)
(* alerts.json, the /set_alert and /my_alerts handlers of the web service  *)
(* process and the check_alerts sweep of the cron process.                 *)
(*                                                                         *)
(* The two processes share nothing but the file.  A step of the model is   *)
(* one system call on the file, one network call, or one awaited Telegram  *)
(* call, together with the synchronous Python code that precedes it.       *)
(*                                                                         *)
(* Floats: a finite float with at most three decimals is the integer       *)
(* number of thousandths before round(), and the integer number of cents   *)
(* after round(x, 2).  NaN is the float float("nan") returns; every        *)
(* comparison with it is false, as in IEEE 754.                            *)
(***************************************************************************)
EXTENDS Integers, Sequences, FiniteSets, TLC

(***************************************************************************)
(* Bounds of the exploration.                                              *)
(***************************************************************************)
MaxTargets == 2      \* longest target list a registration may extend to
MaxCommands == 2     \* number of /set_alert and /my_alerts updates handled
MaxSweeps == 2       \* number of cron invocations of check_alerts

(***************************************************************************)
(* Inputs.                                                                 *)
(***************************************************************************)
Users == {1, 2}                       \* update.effective_user.id
GroupChatId == -5                     \* update.effective_chat.id of a group
\* chats a user writes from: the private chat (same id); user 1 also the group
Chats(u) == IF u = 1 THEN {u, GroupChatId} ELSE {u}
None == -1                            \* Python None, where a float is expected
NaN == 999999999                      \* float("nan")

\* context.args: no argument, or the text of args[0]
Args ==
    { [kind |-> "none",  millis |-> 0],      \* /set_alert
      [kind |-> "text",  millis |-> 0],      \* /set_alert abc
      [kind |-> "nan",   millis |-> 0],      \* /set_alert nan
      [kind |-> "num",   millis |-> 4],      \* /set_alert 0.004
      [kind |-> "num",   millis |-> 5000],   \* /set_alert 5
      [kind |-> "num",   millis |-> 5004],   \* /set_alert 5.004
      [kind |-> "num",   millis |-> 10000] } \* /set_alert 10

\* what CoinGecko may answer, in cents: below, equal to, above the targets
Prices == {500, 725}

(***************************************************************************)
(* Float arithmetic of Python on the values above.                         *)
(***************************************************************************)
ValueError == -2

\* float(context.args[0]): thousandths, NaN, or ValueError
float(arg) ==
    CASE arg.kind = "num" -> arg.millis
      [] arg.kind = "nan" -> NaN
      [] OTHER -> ValueError

\* round(x, 2) of a float given in thousandths: cents, ties to even
round2(x) ==
    IF x = NaN THEN NaN
    ELSE LET q == x \div 10
             r == x % 10
         IN  IF r < 5 THEN q
             ELSE IF r > 5 THEN q + 1
             ELSE IF q % 2 = 0 THEN q ELSE q + 1

FLt(a, b) == a # NaN /\ b # NaN /\ a < b
FLe(a, b) == a # NaN /\ b # NaN /\ a <= b
FGe(a, b) == a # NaN /\ b # NaN /\ a >= b
FEq(a, b) == a # NaN /\ b # NaN /\ a = b

\* x in lst, for a float x that is not an element object of lst
InList(x, lst) == \E k \in DOMAIN lst : FEq(lst[k], x)

(***************************************************************************)
(* list.sort() of CPython on a short list: count_run, then binarysort.     *)
(***************************************************************************)
RECURSIVE RunLen(_, _, _)
\* length of the run starting at lst[1]; k is the length found so far
RunLen(lst, k, desc) ==
    IF k >= Len(lst) THEN k
    ELSE IF desc = FLt(lst[k + 1], lst[k]) THEN RunLen(lst, k + 1, desc)
    ELSE k

Reverse(lst) == [k \in 1..Len(lst) |-> lst[Len(lst) + 1 - k]]

RECURSIVE BinPos(_, _, _, _)
\* binarysort's search of the slot of pivot in run[l+1..r] (0-based l, r)
BinPos(run, pivot, l, r) ==
    IF l >= r THEN l
    ELSE LET p == l + ((r - l) \div 2)
         IN  IF FLt(pivot, run[p + 1]) THEN BinPos(run, pivot, l, p)
             ELSE BinPos(run, pivot, p + 1, r)

Insert(run, pivot) ==
    LET l == BinPos(run, pivot, 0, Len(run))
    IN  SubSeq(run, 1, l) \o <<pivot>> \o SubSeq(run, l + 1, Len(run))

RECURSIVE BinarySort(_, _)
BinarySort(run, rest) ==
    IF rest = <<>> THEN run
    ELSE BinarySort(Insert(run, Head(rest)), Tail(rest))

sort(lst) ==
    IF Len(lst) < 2 THEN lst
    ELSE LET desc == FLt(lst[2], lst[1])
             n == RunLen(lst, 2, desc)
             run == IF desc THEN Reverse(SubSeq(lst, 1, n)) ELSE SubSeq(lst, 1, n)
         IN  BinarySort(run, SubSeq(lst, n + 1, Len(lst)))

(***************************************************************************)
(* The alerts dict: a sequence of entries in insertion order, one per key. *)
(***************************************************************************)
Keys(alerts) == {alerts[k].user_id : k \in DOMAIN alerts}
Pos(alerts, u) == CHOOSE k \in DOMAIN alerts : alerts[k].user_id = u
Get(alerts, u) == alerts[Pos(alerts, u)]
TargetsOf(alerts, u) == IF u \in Keys(alerts) THEN Get(alerts, u).targets ELSE <<>>

RECURSIVE Del(_, _)
\* del alerts[u] for every u of the set us that is a key
Del(alerts, us) ==
    IF alerts = <<>> THEN <<>>
    ELSE IF Head(alerts).user_id \in us THEN Del(Tail(alerts), us)
    ELSE <<Head(alerts)>> \o Del(Tail(alerts), us)

(***************************************************************************)
(* alerts.json.  json.dump(alerts, f, indent=4) of a store this small is   *)
(* one write() at offset 0 when the file object is closed; open(.., 'w')   *)
(* has truncated the file before.  Content that is not one complete JSON   *)
(* document is "bad"; len is the size of the file in bytes.                *)
(***************************************************************************)
Digits(n) == IF n < 0 THEN (IF n > -10 THEN 2 ELSE 3) ELSE (IF n < 10 THEN 1 ELSE 2)

\* len(repr(x)) of a float in cents: 5.0, 10.0, 7.25, NaN
ReprLen(x) ==
    IF x = NaN THEN 3
    ELSE Digits(x \div 100) + 1 + (IF x % 10 = 0 THEN 1 ELSE 2)

RECURSIVE SumLen(_)
SumLen(targets) ==
    IF targets = <<>> THEN 0 ELSE 12 + ReprLen(Head(targets)) + SumLen(Tail(targets))

ListLen(targets) ==
    IF targets = <<>> THEN 2
    ELSE 2 + SumLen(targets) + 2 * (Len(targets) - 1) + 1 + 8 + 1

EntryLen(e) ==
    4 + (Digits(e.user_id) + 2) + 2 + 2
      + 8 + 11 + Digits(e.chat_id) + 2
      + 8 + 11 + ListLen(e.targets) + 1 + 4 + 1

RECURSIVE SumEntries(_)
SumEntries(alerts) ==
    IF alerts = <<>> THEN 0 ELSE EntryLen(Head(alerts)) + SumEntries(Tail(alerts))

\* len(json.dumps(alerts, indent=4))
JsonLen(alerts) ==
    IF alerts = <<>> THEN 2
    ELSE 2 + SumEntries(alerts) + 2 * (Len(alerts) - 1) + 2

Missing == [st |-> "missing", data |-> <<>>, len |-> 0]
Document(alerts) == [st |-> "ok", data |-> alerts, len |-> JsonLen(alerts)]

\* bytes that are not text in the encoding open() reads the file with
Undecodable == [st |-> "undecodable", data |-> <<>>, len |-> 3]

\* json.load raises UnicodeDecodeError, which line 21 does not catch
load_raises(f) == f.st = "undecodable"

\* what load_alerts returns when it returns
load_alerts(f) ==
    IF f.st = "missing" THEN <<>>       \* not os.path.exists
    ELSE IF f.st = "bad" THEN <<>>      \* json.JSONDecodeError
    ELSE f.data

\* open(ALERTS_FILE, 'w'): the file exists and is empty
save_open(f) == [st |-> "bad", data |-> <<>>, len |-> 0]

\* the write of the whole document at offset 0 of what the file holds now
save_write(f, alerts) ==
    IF JsonLen(alerts) >= f.len THEN Document(alerts)
    ELSE [st |-> "bad", data |-> <<>>, len |-> f.len]

(***************************************************************************)
(* State.                                                                  *)
(***************************************************************************)
VARIABLES
    file,             \* alerts.json
    \* web service process: the handler being run
    pcR,              \* "idle", "open", "write", "price"
    alertsR,          \* alerts of set_alert_command
    reqR,             \* user_id, chat_id, target_price of the update
    reply,            \* the last reply_text sent by a handler, and when
    nCmd,             \* updates handled so far
    \* cron process: check_alerts
    pcS,              \* "idle", "skipped", "load", "loop", "write", "done",
                      \* "crashed"
    current_price,    \* current_price of check_alerts
    alertsS,          \* alerts of check_alerts
    loadedS,          \* what load_alerts returned to check_alerts
    i,                \* position of the outer loop in alerts.items()
    j,                \* position of the inner loop in data['targets']
    new_targets,      \* new_targets of the user being processed
    alerts_to_remove, \* keys of alerts_to_remove
    sent,             \* bot.send_message calls of this sweep, in order
    nSweep            \* sweeps started so far

varsR == <<pcR, alertsR, reqR, reply, nCmd>>
varsS == <<pcS, current_price, alertsS, loadedS, i, j, new_targets,
           alerts_to_remove, sent, nSweep>>
vars == <<file, varsR, varsS>>

NoReq == [user_id |-> 0, chat_id |-> 0, target_price |-> 0]
NoReply == [kind |-> "", user_id |-> 0, target |-> 0, price |-> None, targets |-> <<>>,
            window |-> 0]

\* a handler with an await between load_alerts and save_alerts: the event
\* loop is free for other updates while it is suspended there
RegActive_AwaitBeforeSave == pcR = "price"

\* a handler holds the event loop of the web service: it has begun and has
\* not reached the await of its reply; lines 78-92 have no await
RegActive == pcR # "idle"
SweepActive == pcS \in {"load", "loop", "write"}

Init ==
    /\ file \in {Missing, Document(<<>>), save_open(Missing)}
    /\ pcR = "idle" /\ alertsR = <<>> /\ reqR = NoReq /\ reply = NoReply /\ nCmd = 0
    /\ pcS = "idle" /\ current_price = None /\ alertsS = <<>> /\ loadedS = <<>>
    /\ i = 1 /\ j = 1 /\ new_targets = <<>> /\ alerts_to_remove = {}
    /\ sent = <<>> /\ nSweep = 0

\* update.message.reply_text
Reply(kind, u, target, price, targets) ==
    [kind |-> kind, user_id |-> u, target |-> target, price |-> price, targets |-> targets,
     window |-> 0]

(***************************************************************************)
(* set_alert_command                                                       *)
(***************************************************************************)
\* lines 80-81 with a handler that also stores the chat of a later update
WithUser_UpdateChat(alerts, u, c) ==
    IF u \in Keys(alerts) THEN [alerts EXCEPT ![Pos(alerts, u)].chat_id = c]
    ELSE Append(alerts, [user_id |-> u, chat_id |-> c, targets |-> <<>>])

\* alerts after lines 80-81: the record of user_id exists
WithUser(alerts, u, c) ==
    IF u \in Keys(alerts) THEN alerts
    ELSE Append(alerts, [user_id |-> u, chat_id |-> c, targets |-> <<>>])

\* alerts after lines 87-88
WithTarget(alerts, u, t) ==
    [alerts EXCEPT ![Pos(alerts, u)].targets = sort(Append(@, t))]

\* set_alert_command without the test of line 83
SetAlertBegin_NoDuplicateTest(u, c, arg) ==
    /\ ~RegActive
    /\ nCmd < MaxCommands
    /\ nCmd' = nCmd + 1
    /\ UNCHANGED <<file, varsS>>
    /\ IF arg.kind = "none"
       THEN /\ reply' = Reply("missing_argument", u, 0, None, <<>>)
            /\ UNCHANGED <<pcR, alertsR, reqR>>
       ELSE IF float(arg) = ValueError
       THEN /\ reply' = Reply("invalid_format", u, 0, None, <<>>)
            /\ UNCHANGED <<pcR, alertsR, reqR>>
       ELSE LET target_price == round2(float(arg))
                alerts == WithUser(load_alerts(file), u, c)
            IN  IF FLe(target_price, 0)
                THEN /\ reply' = Reply("invalid_price", u, 0, None, <<>>)
                     /\ UNCHANGED <<pcR, alertsR, reqR>>
                ELSE IF load_raises(file)
                THEN /\ reply' = Reply("unhandled_exception", u, 0, None, <<>>)
                     /\ UNCHANGED <<pcR, alertsR, reqR>>
                ELSE /\ Len(Get(alerts, u).targets) < MaxTargets
                     /\ alertsR' = WithTarget(alerts, u, target_price)
                     /\ reqR' = [user_id |-> u, chat_id |-> c,
                                 target_price |-> target_price]
                     /\ pcR' = "open"
                     /\ UNCHANGED reply

\* lines 61-88: everything up to the call of save_alerts; when load_alerts
\* raises, the exception leaves the handler and no reply_text is made, which
\* reply records as "unhandled_exception"
SetAlertBegin(u, c, arg) ==
    /\ ~RegActive
    /\ nCmd < MaxCommands
    /\ nCmd' = nCmd + 1
    /\ UNCHANGED <<file, varsS>>
    /\ IF arg.kind = "none"
       THEN /\ reply' = Reply("missing_argument", u, 0, None, <<>>)
            /\ UNCHANGED <<pcR, alertsR, reqR>>
       ELSE IF float(arg) = ValueError
       THEN /\ reply' = Reply("invalid_format", u, 0, None, <<>>)
            /\ UNCHANGED <<pcR, alertsR, reqR>>
       ELSE LET target_price == round2(float(arg))
                alerts == WithUser(load_alerts(file), u, c)
            IN  IF FLe(target_price, 0)
                THEN /\ reply' = Reply("invalid_price", u, 0, None, <<>>)
                     /\ UNCHANGED <<pcR, alertsR, reqR>>
                ELSE IF load_raises(file)
                THEN /\ reply' = Reply("unhandled_exception", u, 0, None, <<>>)
                     /\ UNCHANGED <<pcR, alertsR, reqR>>
                ELSE IF InList(target_price, Get(alerts, u).targets)
                THEN /\ reply' = Reply("duplicate", u, target_price, None, <<>>)
                     /\ UNCHANGED <<pcR, alertsR, reqR>>
                ELSE /\ Len(Get(alerts, u).targets) < MaxTargets
                     /\ alertsR' = WithTarget(alerts, u, target_price)
                     /\ reqR' = [user_id |-> u, chat_id |-> c,
                                 target_price |-> target_price]
                     /\ pcR' = "open"
                     /\ UNCHANGED reply

\* a save that first loads the file again and adds the target to that store
SetAlertSaveOpen_Reload ==
    /\ pcR = "open"
    /\ alertsR' = WithTarget(WithUser(load_alerts(file), reqR.user_id, reqR.chat_id),
                             reqR.user_id, reqR.target_price)
    /\ file' = save_open(file)
    /\ pcR' = "write"
    /\ UNCHANGED <<reqR, reply, nCmd, varsS>>

\* line 89, save_alerts line 27
SetAlertSaveOpen ==
    /\ pcR = "open"
    /\ file' = save_open(file)
    /\ pcR' = "write"
    /\ UNCHANGED <<alertsR, reqR, reply, nCmd, varsS>>

\* line 89, save_alerts line 28 and the close of the file
SetAlertSaveWrite ==
    /\ pcR = "write"
    /\ file' = save_write(file, alertsR)
    /\ pcR' = "price"
    /\ UNCHANGED <<alertsR, reqR, reply, nCmd, varsS>>

\* lines 91-97 with a handler that gives up when get_ton_price returns None
SetAlertReply_NeedsPrice(p) ==
    /\ pcR = "price"
    /\ reply' = IF p = None
                THEN Reply("price_unavailable", reqR.user_id, reqR.target_price, p, <<>>)
                ELSE Reply("confirmed", reqR.user_id, reqR.target_price, p, <<>>)
    /\ pcR' = "idle"
    /\ alertsR' = <<>>
    /\ reqR' = NoReq
    /\ UNCHANGED <<file, nCmd, varsS>>

\* lines 91-97: get_ton_price returns p, then the confirmation; window is 1
\* when a sweep was between its load and its save as it was sent
SetAlertReply(p) ==
    /\ pcR = "price"
    /\ reply' = [Reply("confirmed", reqR.user_id, reqR.target_price, p, <<>>)
                   EXCEPT !.window = IF pcS = "loop" THEN 1 ELSE 0]
    /\ pcR' = "idle"
    /\ alertsR' = <<>>
    /\ reqR' = NoReq
    /\ UNCHANGED <<file, nCmd, varsS>>

(***************************************************************************)
(* my_alerts_command                                                       *)
(***************************************************************************)
MyAlerts(u) ==
    /\ ~RegActive
    /\ nCmd < MaxCommands
    /\ nCmd' = nCmd + 1
    /\ LET alerts == load_alerts(file)
       IN  reply' = IF load_raises(file)
                    THEN Reply("unhandled_exception", u, 0, None, <<>>)
                    ELSE IF u \in Keys(alerts) /\ Get(alerts, u).targets # <<>>
                    THEN Reply("list", u, 0, None, Get(alerts, u).targets)
                    ELSE Reply("no_alerts", u, 0, None, <<>>)
    /\ UNCHANGED <<file, pcR, alertsR, reqR, varsS>>

(***************************************************************************)
(* check_alerts                                                            *)
(***************************************************************************)
\* line 140 with one direction only
Fires_AboveOnly(price, target_price) == FGe(price, target_price)

\* line 140
Fires(price, target_price) == FGe(price, target_price) \/ FLe(price, target_price)

\* check_alerts without the early return of lines 124-126
CheckFetchPrice_NoEarlyReturn(p) ==
    /\ pcS \in {"idle", "skipped", "done", "crashed"}
    /\ nSweep < MaxSweeps
    /\ nSweep' = nSweep + 1
    /\ current_price' = p
    /\ pcS' = "load"
    /\ alertsS' = <<>> /\ loadedS' = <<>> /\ i' = 1 /\ j' = 1
    /\ new_targets' = <<>> /\ alerts_to_remove' = {} /\ sent' = <<>>
    /\ UNCHANGED <<file, varsR>>

\* lines 122-126: get_ton_price returns p
CheckFetchPrice(p) ==
    /\ pcS \in {"idle", "skipped", "done", "crashed"}
    /\ nSweep < MaxSweeps
    /\ nSweep' = nSweep + 1
    /\ current_price' = p
    /\ pcS' = IF p = None THEN "skipped" ELSE "load"
    /\ alertsS' = <<>> /\ loadedS' = <<>> /\ i' = 1 /\ j' = 1
    /\ new_targets' = <<>> /\ alerts_to_remove' = {} /\ sent' = <<>>
    /\ UNCHANGED <<file, varsR>>

\* lines 130-133; when load_alerts raises, the job ends with the traceback
CheckLoad ==
    /\ pcS = "load"
    /\ IF load_raises(file)
       THEN /\ pcS' = "crashed"
            /\ UNCHANGED <<alertsS, loadedS>>
       ELSE /\ alertsS' = load_alerts(file)
            /\ loadedS' = load_alerts(file)
            /\ pcS' = "loop"
    /\ UNCHANGED <<file, varsR, current_price, i, j, new_targets,
                   alerts_to_remove, sent, nSweep>>

\* the inner loop with an except clause that only logs (no lines 154-155)
CheckTarget_NoRemovalOnFailure(ok) ==
    /\ pcS = "loop"
    /\ i <= Len(alertsS)
    /\ j <= Len(alertsS[i].targets)
    /\ LET data == alertsS[i]
           target_price == data.targets[j]
       IN  IF Fires(current_price, target_price)
           THEN /\ sent' = Append(sent, [user_id |-> data.user_id,
                                         chat_id |-> data.chat_id,
                                         target |-> target_price,
                                         price |-> current_price,
                                         ok |-> ok])
                /\ UNCHANGED <<new_targets, alerts_to_remove>>
           ELSE /\ new_targets' = Append(new_targets, target_price)
                /\ UNCHANGED <<sent, alerts_to_remove>>
    /\ j' = j + 1
    /\ UNCHANGED <<file, varsR, pcS, current_price, alertsS, loadedS, i, nSweep>>

\* lines 139-157: one iteration of the inner loop; ok: send_message returns
CheckTarget(ok) ==
    /\ pcS = "loop"
    /\ i <= Len(alertsS)
    /\ j <= Len(alertsS[i].targets)
    /\ LET data == alertsS[i]
           target_price == data.targets[j]
       IN  IF Fires(current_price, target_price)
           THEN /\ sent' = Append(sent, [user_id |-> data.user_id,
                                         chat_id |-> data.chat_id,
                                         target |-> target_price,
                                         price |-> current_price,
                                         ok |-> ok])
                /\ alerts_to_remove' = IF ok THEN alerts_to_remove
                                       ELSE alerts_to_remove \cup {data.user_id}
                /\ UNCHANGED new_targets
           ELSE /\ new_targets' = Append(new_targets, target_price)
                /\ UNCHANGED <<sent, alerts_to_remove>>
    /\ j' = j + 1
    /\ UNCHANGED <<file, varsR, pcS, current_price, alertsS, loadedS, i, nSweep>>

\* the end of the outer loop body with a save_alerts call after each user
CheckUserEnd_SaveEachUser ==
    /\ pcS = "loop"
    /\ i <= Len(alertsS)
    /\ j > Len(alertsS[i].targets)
    /\ alertsS' = [alertsS EXCEPT ![i].targets = new_targets]
    /\ alerts_to_remove' = IF new_targets = <<>>
                           THEN alerts_to_remove \cup {alertsS[i].user_id}
                           ELSE alerts_to_remove
    /\ file' = Document(alertsS')
    /\ i' = i + 1
    /\ j' = 1
    /\ new_targets' = <<>>
    /\ UNCHANGED <<varsR, pcS, current_price, loadedS, sent, nSweep>>

\* the end of the outer loop body without lines 163-164
CheckUserEnd_KeepEmpty ==
    /\ pcS = "loop"
    /\ i <= Len(alertsS)
    /\ j > Len(alertsS[i].targets)
    /\ alertsS' = [alertsS EXCEPT ![i].targets = new_targets]
    /\ i' = i + 1
    /\ j' = 1
    /\ new_targets' = <<>>
    /\ UNCHANGED <<file, varsR, pcS, current_price, loadedS, sent, nSweep,
                   alerts_to_remove>>

\* lines 159-164: after the inner loop
CheckUserEnd ==
    /\ pcS = "loop"
    /\ i <= Len(alertsS)
    /\ j > Len(alertsS[i].targets)
    /\ alertsS' = [alertsS EXCEPT ![i].targets = new_targets]
    /\ alerts_to_remove' = IF new_targets = <<>>
                           THEN alerts_to_remove \cup {alertsS[i].user_id}
                           ELSE alerts_to_remove
    /\ i' = i + 1
    /\ j' = 1
    /\ new_targets' = <<>>
    /\ UNCHANGED <<file, varsR, pcS, current_price, loadedS, sent, nSweep>>

\* entries of now whose key is not a key of old
RECURSIVE NewEntries(_, _)
NewEntries(now, old) ==
    IF now = <<>> THEN <<>>
    ELSE IF Head(now).user_id \in Keys(old) THEN NewEntries(Tail(now), old)
    ELSE <<Head(now)>> \o NewEntries(Tail(now), old)

\* a save that first reloads the file and keeps the records added since
CheckSaveOpen_Merge ==
    /\ pcS = "loop"
    /\ i > Len(alertsS)
    /\ alertsS' = Del(alertsS, alerts_to_remove)
                     \o NewEntries(load_alerts(file), loadedS)
    /\ file' = save_open(file)
    /\ pcS' = "write"
    /\ UNCHANGED <<varsR, current_price, loadedS, i, j, new_targets,
                   alerts_to_remove, sent, nSweep>>

\* lines 166-170, then save_alerts line 27
CheckSaveOpen ==
    /\ pcS = "loop"
    /\ i > Len(alertsS)
    /\ alertsS' = Del(alertsS, alerts_to_remove)
    /\ file' = save_open(file)
    /\ pcS' = "write"
    /\ UNCHANGED <<varsR, current_price, loadedS, i, j, new_targets,
                   alerts_to_remove, sent, nSweep>>

\* save_alerts line 28 and the close of the file, then line 173
CheckSaveWrite ==
    /\ pcS = "write"
    /\ file' = save_write(file, alertsS)
    /\ pcS' = "done"
    /\ UNCHANGED <<varsR, current_price, alertsS, loadedS, i, j, new_targets,
                   alerts_to_remove, sent, nSweep>>

(***************************************************************************)
(* Specifications.                                                         *)
(* Spec: the web service and the cron job run at the same time.            *)
(* SpecSeq: an invocation starts only when no other one is running.        *)
(***************************************************************************)
Next ==
    \/ \E u \in Users : \E c \in Chats(u) : \E arg \in Args : SetAlertBegin(u, c, arg)
    \/ SetAlertSaveOpen
    \/ SetAlertSaveWrite
    \/ \E p \in Prices \cup {None} : SetAlertReply(p)
    \/ \E u \in Users : MyAlerts(u)
    \/ \E p \in Prices \cup {None} : CheckFetchPrice(p)
    \/ CheckLoad
    \/ \E ok \in BOOLEAN : CheckTarget(ok)
    \/ CheckUserEnd
    \/ CheckSaveOpen
    \/ CheckSaveWrite

Spec == Init /\ [][Next]_vars

NextSeq ==
    \/ /\ ~SweepActive
       /\ \E u \in Users : \E c \in Chats(u) : \E arg \in Args : SetAlertBegin(u, c, arg)
    \/ SetAlertSaveOpen
    \/ SetAlertSaveWrite
    \/ \E p \in Prices \cup {None} : SetAlertReply(p)
    \/ /\ ~SweepActive
       /\ \E u \in Users : MyAlerts(u)
    \/ /\ ~RegActive
       /\ \E p \in Prices \cup {None} : CheckFetchPrice(p)
    \/ CheckLoad
    \/ \E ok \in BOOLEAN : CheckTarget(ok)
    \/ CheckUserEnd
    \/ CheckSaveOpen
    \/ CheckSaveWrite

SpecSeq == Init /\ [][NextSeq]_vars

\* SpecWeb: the web service alone, its handlers taking turns on the event loop
NextWeb ==
    \/ \E u \in Users : \E c \in Chats(u) : \E arg \in Args : SetAlertBegin(u, c, arg)
    \/ SetAlertSaveOpen
    \/ SetAlertSaveWrite
    \/ \E p \in Prices \cup {None} : SetAlertReply(p)
    \/ \E u \in Users : MyAlerts(u)

SpecWeb == Init /\ [][NextWeb]_vars

\* SpecAnyFile: as SpecSeq, and alerts.json may also start damaged
InitAnyFile ==
    /\ file \in {Missing, Document(<<>>), save_open(Missing), Undecodable}
    /\ pcR = "idle" /\ alertsR = <<>> /\ reqR = NoReq /\ reply = NoReply /\ nCmd = 0
    /\ pcS = "idle" /\ current_price = None /\ alertsS = <<>> /\ loadedS = <<>>
    /\ i = 1 /\ j = 1 /\ new_targets = <<>> /\ alerts_to_remove = {}
    /\ sent = <<>> /\ nSweep = 0

SpecAnyFile == InitAnyFile /\ [][NextSeq]_vars

(***************************************************************************)
(* Properties.                                                             *)
(***************************************************************************)
Range(seq) == {seq[k] : k \in DOMAIN seq}
Occurs(seq, x) == Cardinality({k \in DOMAIN seq : seq[k] = x})
\* send_message calls of this sweep for user u naming target t
Attempts(u, t) ==
    Cardinality({k \in DOMAIN sent : sent[k].user_id = u /\ sent[k].target = t})
RECURSIVE TotalTargets(_)
TotalTargets(alerts) ==
    IF alerts = <<>> THEN 0 ELSE Len(Head(alerts).targets) + TotalTargets(Tail(alerts))
SweepCompletes == pcS = "write" /\ pcS' = "done"

\* C1: when a sweep that obtained a price and ran without an overlapping
\* writer has finished, every target of every user of the loaded store has
\* had one notification attempt naming it, and the store the sweep saved has
\* no record of any user that had targets.
C1_SweepNotifiesAllAndRemoves ==
    pcS = "done" =>
        \A k \in DOMAIN loadedS :
            LET e == loadedS[k]
            IN  /\ \A m \in DOMAIN e.targets :
                       Attempts(e.user_id, e.targets[m]) = Occurs(e.targets, e.targets[m])
                /\ e.targets # <<>> => e.user_id \notin Keys(alertsS)

\* C2: a sweep whose price fetch returns None is over with that step: it
\* leaves the file as it is, sends nothing, and does nothing afterwards.
C2_UnavailableLeavesStore ==
    [][/\ (nSweep' # nSweep /\ current_price' = None)
            => (file' = file /\ sent' = <<>> /\ pcS' = "skipped")
       /\ (pcS = "skipped" /\ nSweep' = nSweep) => UNCHANGED varsS]_vars

C2_Witness ==
    /\ pcS = "skipped"
    /\ file.st = "ok"
    /\ file.data # <<>>

\* C3: a /set_alert whose price rounds to a value already in the user's
\* persisted list is answered with the duplicate message, writes nothing and
\* starts no save.
C3_DuplicateRejected ==
    [][(pcR = "idle" /\ nCmd' # nCmd) =>
          \A u \in Users : \A arg \in Args :
              (/\ arg.kind = "num"
               /\ round2(float(arg)) \in Range(TargetsOf(load_alerts(file), u))
               /\ \E c \in Chats(u) : SetAlertBegin(u, c, arg))
              => (reply'.kind = "duplicate" /\ file' = file /\ pcR' = "idle")]_vars

C3_Witness ==
    /\ reply.kind = "duplicate"
    /\ pcR = "idle"
    /\ file.st = "ok"
    /\ reply.target \in Range(TargetsOf(file.data, reply.user_id))
    /\ Len(TargetsOf(file.data, reply.user_id)) = 1

\* C4: the store a sweep saves has no record of a user to whom a send of
\* that sweep failed, and no step that sends changes the reply a user got.
C4_FailedDeliveryDropsUser ==
    [][/\ SweepCompletes =>
            \A k \in DOMAIN sent :
                ~sent[k].ok => sent[k].user_id \notin Keys(load_alerts(file'))
       /\ sent' # sent => reply' = reply]_vars

C4_Witness ==
    /\ pcS = "done"
    /\ file = Document(alertsS)
    /\ \E k \in DOMAIN sent :
          /\ ~sent[k].ok
          /\ NaN \in Range(TargetsOf(loadedS, sent[k].user_id))
          /\ sent[k].user_id \notin Keys(file.data)

\* C5: every persisted target list is strictly ascending.
C5_StrictlyAscending ==
    \A k \in DOMAIN load_alerts(file) :
        LET targets == load_alerts(file)[k].targets
        IN  \A m \in 1..(Len(targets) - 1) : FLt(targets[m], targets[m + 1])

\* C6: no persisted record has an empty target list.
C6_NoEmptyRecord ==
    \A k \in DOMAIN load_alerts(file) : load_alerts(file)[k].targets # <<>>

C6_Witness ==
    /\ pcS = "done"
    /\ file.st = "ok"
    /\ \E u \in Keys(loadedS) : u \notin Keys(file.data)

\* C7: what a sweep saves is made of what it loaded only: a target saved by
\* a registration between the sweep's load and its save is not in the file
\* the sweep leaves.
C7_SweepSavesOnlyWhatItLoaded ==
    [][SweepCompletes =>
          \A u \in Keys(load_alerts(file')) :
              Range(TargetsOf(load_alerts(file'), u)) \subseteq Range(TargetsOf(loadedS, u))]_vars

\* the registration was confirmed inside the window, and is lost
C7_Witness ==
    /\ pcS = "done"
    /\ pcR = "idle"
    /\ reply.kind = "confirmed"
    /\ reply.window = 1
    /\ nSweep = 1
    /\ reply.target # NaN
    /\ reply.target \notin Range(TargetsOf(loadedS, reply.user_id))
    /\ file = Document(alertsS)
    /\ reply.target \notin Range(TargetsOf(file.data, reply.user_id))
    /\ Attempts(reply.user_id, reply.target) = 0

\* C8: when a save has opened the file, a load by the other process returns
\* the store as it was before the save or the store being saved.
C8_SaveIsAtomic ==
    [][/\ (pcR = "open" /\ pcR' = "write" /\ pcS = "load")
            => load_alerts(file') \in {load_alerts(file), alertsR}
       /\ (pcS = "loop" /\ pcS' = "write" /\ pcR = "idle")
            => load_alerts(file') \in {load_alerts(file), alertsS'}]_vars

\* C9: with no overlapping invocations, a sweep that obtained a price makes
\* one attempt for each target registered before it and leaves none of them
\* in the file, so that no later sweep can name them.
C9_FiredOnNextSweepAndRetired ==
    [][SweepCompletes =>
          /\ Len(sent) = TotalTargets(loadedS)
          /\ \A u \in Users : TargetsOf(load_alerts(file'), u) = <<>>]_vars

\* C10: while a sweep works on a user, the targets it has sent and the
\* targets it has kept partition the targets it has gone through, and a
\* target the price is below, equal to or above is sent, never kept.
Comparable(price, target_price) ==
    FLt(price, target_price) \/ FEq(price, target_price) \/ FLt(target_price, price)

C10_MatcherFiresAll ==
    (pcS = "loop" /\ i <= Len(alertsS)) =>
        LET data == alertsS[i]
            seen == SubSeq(data.targets, 1, j - 1)
            mine == SelectSeq(sent, LAMBDA m : m.user_id = data.user_id)
            fired == [k \in DOMAIN mine |-> mine[k].target]
        IN  /\ Len(fired) + Len(new_targets) = Len(seen)
            /\ \A t \in Range(seen) :
                   Occurs(fired, t) + Occurs(new_targets, t) = Occurs(seen, t)
            /\ \A k \in DOMAIN seen :
                   Comparable(current_price, seen[k])
                       => (seen[k] \in Range(fired) /\ seen[k] \notin Range(new_targets))
            /\ (\A k \in DOMAIN seen : Comparable(current_price, seen[k]))
                   => (new_targets = <<>> /\ fired = seen)

C10_Witness ==
    /\ pcS = "loop"
    /\ i <= Len(alertsS)
    /\ alertsS[i].targets = <<500, 1000>>
    /\ j = 3
    /\ current_price = 725
    /\ new_targets = <<>>
    /\ Len(sent) = 2

\* C11: a /set_alert whose text is not a number is answered with the invalid
\* format message, one whose number rounds to zero or less with the invalid
\* price message, one without argument with the missing argument message; in
\* the three cases the file is left as it was and the handler ends there,
\* with no save and no call of get_ton_price to come.
NotANumber(arg) == arg.kind \in {"text", "nan"}

C11_InvalidInputRejected ==
    [][(pcR = "idle" /\ nCmd' # nCmd) =>
          \A u \in Users : \A arg \in Args :
              (\E c \in Chats(u) : SetAlertBegin(u, c, arg)) =>
                  /\ arg.kind = "none" => reply'.kind = "missing_argument"
                  /\ NotANumber(arg) => reply'.kind = "invalid_format"
                  /\ (arg.kind = "num" /\ round2(float(arg)) <= 0)
                         => reply'.kind = "invalid_price"
                  /\ (arg.kind = "none" \/ NotANumber(arg)
                        \/ (arg.kind = "num" /\ round2(float(arg)) <= 0))
                         => (file' = file /\ pcR' = "idle")]_vars

\* C12: when alerts.json is missing or is not a readable JSON document,
\* load_alerts gives the empty store to its caller: the sweep that loads goes
\* on to its loop with nothing to examine, and the registration that loads
\* goes on to save a store holding its own target only.
C12_DamagedFileLoadsEmpty ==
    [][file.st # "ok" =>
          /\ (pcS = "load" /\ pcS' # pcS) =>
                 (pcS' = "loop" /\ loadedS' = <<>> /\ alertsS' = <<>>)
          /\ (pcR = "idle" /\ nCmd' # nCmd) =>
                 \A u \in Users : \A arg \in Args :
                     (/\ arg.kind = "num"
                      /\ round2(float(arg)) > 0
                      /\ \E c \in Chats(u) : SetAlertBegin(u, c, arg))
                     => /\ pcR' = "open"
                        /\ alertsR' = <<[user_id |-> u, chat_id |-> reqR'.chat_id,
                                         targets |-> <<round2(float(arg))>>]>>]_vars

\* C13: when a registration reaches its call of get_ton_price, its target is
\* already in alerts.json; whatever get_ton_price returns, a price or None,
\* the step leaves the file as it is and answers with the confirmation for
\* that target, which carries the price or None.
C13_RegisteredBeforeOracle ==
    [][(pcR = "price" /\ pcR' = "idle") =>
          /\ file = Document(alertsR)
          /\ reqR.target_price \in Range(TargetsOf(file.data, reqR.user_id))
          /\ file' = file
          /\ reply'.kind = "confirmed"
          /\ reply'.user_id = reqR.user_id
          /\ reply'.target = reqR.target_price
          /\ reply'.price \in Prices \cup {None}]_vars

C13_Witness ==
    /\ pcR = "idle"
    /\ reply.kind = "confirmed"
    /\ reply.price = None
    /\ file.st = "ok"
    /\ reply.target \in Range(TargetsOf(file.data, reply.user_id))

\* C14: a sweep goes through its phases in one order: the price is fetched
\* in the step that starts the sweep and never again, the store is loaded
\* next, sends happen only in the loop over the loaded users, and the sweep
\* touches the file only in its one save_alerts call, which starts when every
\* loaded user has been examined and the marked users have been deleted.
SweepOrder ==
    ({"idle", "skipped", "done"} \X {"load", "skipped"})
        \cup {<<"load", "loop">>, <<"loop", "loop">>, <<"loop", "write">>,
              <<"write", "done">>}

C14_SweepPhasesInOrder ==
    [][varsS' # varsS =>
          /\ <<pcS, pcS'>> \in SweepOrder
          /\ (nSweep' # nSweep) <=> (pcS \in {"idle", "skipped", "done"})
          /\ (nSweep' = nSweep) => (current_price' = current_price
                                      /\ current_price # None)
          /\ (pcS = "load") => (sent = <<>> /\ loadedS' = load_alerts(file))
          /\ (pcS # "load" /\ nSweep' = nSweep) => loadedS' = loadedS
          /\ (sent' # sent /\ nSweep' = nSweep) =>
                 (pcS = "loop" /\ pcS' = "loop" /\ i <= Len(alertsS))
          /\ (file' # file) =>
                 \/ /\ pcS = "loop" /\ pcS' = "write"
                    /\ i = Len(loadedS) + 1
                    /\ Keys(alertsS') \cap alerts_to_remove = {}
                    /\ sent' = sent
                 \/ /\ pcS = "write" /\ pcS' = "done"
                    /\ file' = save_write(file, alertsS)
                    /\ sent' = sent]_vars

C14_Witness ==
    /\ pcS = "done"
    /\ Len(loadedS) = 2
    /\ Len(sent) = 2
    /\ sent[1].user_id # sent[2].user_id
    /\ \E k \in DOMAIN sent : ~sent[k].ok
    /\ file = Document(alertsS)

\* C15: whether sends fail or not, a sweep makes one send attempt per target
\* it goes through: in the loop the attempts made so far are as many as the
\* targets of the users already examined plus those passed of the current
\* user, and once the sweep is at its save the attempts are as many as the
\* targets of the loaded store.
C15_OneAttemptPerTarget ==
    /\ (pcS = "loop" /\ i <= Len(alertsS)) =>
           Len(sent) = TotalTargets(SubSeq(loadedS, 1, i - 1)) + (j - 1)
    /\ ((pcS = "loop" /\ i > Len(alertsS)) \/ pcS \in {"write", "done"}) =>
           Len(sent) = TotalTargets(loadedS)

Held == IF pcR \in {"open", "write"} THEN alertsR ELSE load_alerts(file)

C18_DestinationFixed ==
    [][/\ (pcR = "idle" /\ pcR' = "open") =>
              \A u \in Keys(load_alerts(file)) :
                  Get(alertsR', u).chat_id = Get(load_alerts(file), u).chat_id
       /\ \A k \in DOMAIN alertsS' :
              alertsS'[k].chat_id = Get(loadedS', alertsS'[k].user_id).chat_id
       /\ \A k \in DOMAIN sent' :
              sent'[k].chat_id = Get(loadedS', sent'[k].user_id).chat_id
       /\ (file' # file /\ file'.st = "ok") => file'.data \in {alertsR, alertsS}]_vars

\* user 1, whose record was created from the private chat, has registered a
\* second target from the group, and the sweep sent the notification for that
\* target to the private chat
C18_Witness ==
    /\ pcR = "price"
    /\ reqR.user_id = 1
    /\ reqR.chat_id = GroupChatId
    /\ Len(TargetsOf(loadedS, 1)) = 2
    /\ \E k \in DOMAIN sent :
           /\ sent[k].user_id = 1
           /\ sent[k].target = reqR.target_price
           /\ sent[k].chat_id = 1

\* C19: a sweep that obtained a price goes on from its load to its loop
\* whatever alerts.json holds; when the store it loaded is empty its only
\* step from there is the start of its save, with nothing sent, and when that
\* save completes the file is the document of the empty store.
C19_PricedSweepAlwaysSaves ==
    [][/\ (pcS = "load" /\ pcS' # "load") => pcS' = "loop"
       /\ (pcS = "loop" /\ loadedS = <<>> /\ varsS' # varsS) =>
              (pcS' = "write" /\ sent' = <<>> /\ alertsS' = <<>>
                 /\ file' = save_open(file))
       /\ (SweepCompletes /\ loadedS = <<>>) =>
              (sent = <<>> /\ file' = Document(<<>>))]_vars

=============================================================================
